---------------------------- MODULE Spec2Model ----------------------------
(***************************************************************************)
(* go-builder: cross-compiles one Go project for several GOOS/GOARCH       *)
(* targets.  The model follows src/main.go: the -target flag callback,     *)
(* parseStringToOSARCH, getTargetBuilds, getBuildOptions, Build and the    *)
(* goroutine-per-target dispatch loop of main with its sync.WaitGroup.     *)
(*                                                                         *)
(* Go strings are sequences of one-character strings, so that ToLower,     *)
(* Split, Sprintf and filepath.Join are computed character by character.   *)
(* The loop variable of "for _, dist := range buildDists" is per-iteration *)
(* (Go >= 1.22 semantics): each goroutine closes over its own dist.        *)
(***************************************************************************)
EXTENDS Integers, Sequences, FiniteSets, TLC

VARIABLES
    pc,           \* position of main (or of the function under test)
    VERBOSE,      \* the -v flag (main.go:25)
    argv,         \* the -target values of the command line, in order
    argi,         \* how many of them flag.Parse has handed to the callback
    targetOS,     \* main.go:193
    targetOSRaw,  \* main.go:194
    stderr,       \* lines written to os.Stderr (warnings and log.Fatalln)
    stdout,       \* lines the verbose logger really emitted (job 0 is main)
    catalog,      \* what "go tool dist list -json" would print
    projectArg,   \* flag.Args()[0], or "" when absent
    outputArg,    \* the -o flag
    config,       \* the BuildConfig of main.go:273-277
    buildDists,   \* main.go:265
    err,          \* the error main holds after getBuildOptions / Getwd
    wg,           \* the sync.WaitGroup counter
    next,         \* index of the next element the dispatch loop ranges over
    jobs,         \* one record per goroutine launched
    locals,       \* main's projectDir, projectName and outputDir
    call,         \* arguments of the function under test (function specs)
    ret           \* its return value

vars == <<pc, VERBOSE, argv, argi, targetOS, targetOSRaw, stderr, stdout,
          catalog, projectArg, outputArg, config, buildDists, err, wg, next,
          jobs, locals, call, ret>>

mainVars == <<VERBOSE, argv, argi, targetOS, targetOSRaw, stderr, stdout,
              catalog, projectArg, outputArg, config, buildDists, err, wg,
              next, jobs, locals>>

-----------------------------------------------------------------------------
(* Bounds of the model.                                                    *)

MaxArgs == 2       \* -target values on one command line
MaxStrLen == 4     \* length of the strings given to parseStringToOSARCH
MaxFilters == 2    \* filters given to getTargetBuilds on its own

-----------------------------------------------------------------------------
(* Errors (main.go:19-23) and the nil error.                               *)

nil == "nil"
ErrInvalidOSARCH == "invalid os/arch configuration"
ErrUnsupportedTargetOSARCH ==
    "unable to find go dist to support target os/arch combination(s)"

-----------------------------------------------------------------------------
(* strings.ToLower, strings.Split, strings.Join on character sequences.    *)

RECURSIVE IndexOf(_, _, _)
IndexOf(s, c, i) ==
    IF i > Len(s) THEN 0 ELSE IF s[i] = c THEN i ELSE IndexOf(s, c, i + 1)

upperChars == <<"A","B","C","D","E","F","G","H","I","J","K","L","M",
                "N","O","P","Q","R","S","T","U","V","W","X","Y","Z">>
lowerChars == <<"a","b","c","d","e","f","g","h","i","j","k","l","m",
                "n","o","p","q","r","s","t","u","v","w","x","y","z">>

ToLowerChar(c) ==
    LET k == IndexOf(upperChars, c, 1) IN IF k = 0 THEN c ELSE lowerChars[k]

RECURSIVE ToLower(_)
ToLower(s) ==
    IF s = <<>> THEN <<>> ELSE <<ToLowerChar(Head(s))>> \o ToLower(Tail(s))

\* strings.Split(s, sep) for a one-character sep: always Count(sep)+1 parts.
RECURSIVE SplitFrom(_, _, _)
SplitFrom(s, sep, cur) ==
    IF s = <<>> THEN <<cur>>
    ELSE IF Head(s) = sep THEN <<cur>> \o SplitFrom(Tail(s), sep, <<>>)
    ELSE SplitFrom(Tail(s), sep, Append(cur, Head(s)))

Split(s, sep) == SplitFrom(s, sep, <<>>)

RECURSIVE JoinStrings(_, _)
JoinStrings(elems, sep) ==
    IF elems = <<>> THEN <<>>
    ELSE IF Len(elems) = 1 THEN elems[1]
    ELSE elems[1] \o sep \o JoinStrings(Tail(elems), sep)

-----------------------------------------------------------------------------
(* parseStringToOSARCH (main.go:148-171).                                  *)

OSARCH(os, arch) == [OS |-> os, ARCH |-> arch]

NewOSARCH == OSARCH(<<>>, <<>>)

\* faulty variant: the separator count is not checked, the first two parts are kept
parseStringToOSARCH_NoCount(rawStr) ==
    IF rawStr = <<>> THEN [osarch |-> NewOSARCH, err |-> ErrInvalidOSARCH]
    ELSE LET splitStr == Split(ToLower(rawStr), "/") IN
         IF Len(splitStr) = 1
         THEN [osarch |-> OSARCH(splitStr[1], <<>>), err |-> nil]
         ELSE [osarch |-> OSARCH(splitStr[1], splitStr[2]), err |-> nil]

parseStringToOSARCH(rawStr) ==
    IF rawStr = <<>> THEN [osarch |-> NewOSARCH, err |-> ErrInvalidOSARCH]
    ELSE LET strLower == ToLower(rawStr)
             splitStr == Split(strLower, "/")
         IN  IF Len(splitStr) = 1
             THEN [osarch |-> OSARCH(splitStr[1], <<>>), err |-> nil]
             ELSE IF Len(splitStr) = 2
             THEN [osarch |-> OSARCH(splitStr[1], splitStr[2]), err |-> nil]
             ELSE [osarch |-> NewOSARCH, err |-> ErrInvalidOSARCH]

-----------------------------------------------------------------------------
(* path/filepath on a slash-separated system: Clean, Join, Base.           *)

RECURSIVE cleanParts(_, _, _)
cleanParts(parts, rooted, out) ==
    IF parts = <<>> THEN out
    ELSE LET p == Head(parts) IN
         IF p = <<>> \/ p = <<".">> THEN cleanParts(Tail(parts), rooted, out)
         ELSE IF p = <<".", ".">>
         THEN IF out /= <<>> /\ out[Len(out)] /= <<".", ".">>
              THEN cleanParts(Tail(parts), rooted, SubSeq(out, 1, Len(out) - 1))
              ELSE IF rooted THEN cleanParts(Tail(parts), rooted, out)
              ELSE cleanParts(Tail(parts), rooted, Append(out, p))
         ELSE cleanParts(Tail(parts), rooted, Append(out, p))

Clean(path) ==
    IF path = <<>> THEN <<".">>
    ELSE LET rooted == path[1] = "/"
             body == JoinStrings(cleanParts(Split(path, "/"), rooted, <<>>), <<"/">>)
         IN  IF rooted THEN <<"/">> \o body
             ELSE IF body = <<>> THEN <<".">> ELSE body

\* filepath.Join: empty elements are ignored, the rest joined and cleaned.
Join(a, b) ==
    LET elems == SelectSeq(<<a, b>>, LAMBDA e : e /= <<>>) IN
    IF elems = <<>> THEN <<>> ELSE Clean(JoinStrings(elems, <<"/">>))

RECURSIVE stripTrailingSlashes(_)
stripTrailingSlashes(path) ==
    IF path /= <<>> /\ path[Len(path)] = "/"
    THEN stripTrailingSlashes(SubSeq(path, 1, Len(path) - 1))
    ELSE path

RECURSIVE lastIndexOf(_, _, _)
lastIndexOf(s, c, i) ==
    IF i = 0 THEN 0 ELSE IF s[i] = c THEN i ELSE lastIndexOf(s, c, i - 1)

Base(path) ==
    IF path = <<>> THEN <<".">>
    ELSE LET p == stripTrailingSlashes(path)
             i == lastIndexOf(p, "/", Len(p))
             b == SubSeq(p, i + 1, Len(p))
         IN  IF b = <<>> THEN <<"/">> ELSE b

-----------------------------------------------------------------------------
(* getTargetBuilds (main.go:67-90).                                        *)

GoDist(os, arch, cgo, first) ==
    [GOOS |-> os, GOARCH |-> arch, CgoSupported |-> cgo, FirstClass |-> first]

\* the condition under which the loop body appends dist (main.go:76-85)
targetMatches(target, dist) ==
    IF target.ARCH = <<>>
    THEN target.OS = dist.GOOS
    ELSE target.OS = dist.GOOS /\ target.ARCH = dist.GOARCH

\* inner loop: for _, dist := range allDists
RECURSIVE rangeAllDists(_, _, _, _)
rangeAllDists(target, allDists, j, targetDists) ==
    IF j > Len(allDists) THEN targetDists
    ELSE rangeAllDists(target, allDists, j + 1,
            IF targetMatches(target, allDists[j])
            THEN Append(targetDists, allDists[j])
            ELSE targetDists)

\* outer loop: for _, target := range targets
RECURSIVE rangeTargets(_, _, _, _)
rangeTargets(targets, allDists, i, targetDists) ==
    IF i > Len(targets) THEN targetDists
    ELSE rangeTargets(targets, allDists, i + 1,
            rangeAllDists(targets[i], allDists, 1, targetDists))

\* faulty variant: a dist already selected by an earlier filter is not appended again
RECURSIVE dedupDists(_, _)
dedupDists(ds, seen) ==
    IF ds = <<>> THEN <<>>
    ELSE IF Head(ds) \in seen THEN dedupDists(Tail(ds), seen)
    ELSE <<Head(ds)>> \o dedupDists(Tail(ds), seen \cup {Head(ds)})

getTargetBuilds_Dedup(targets, allDists) ==
    IF Len(targets) = 0 THEN allDists
    ELSE dedupDists(rangeTargets(targets, allDists, 1, <<>>), {})

getTargetBuilds(targets, allDists) ==
    IF Len(targets) = 0 THEN allDists
    ELSE rangeTargets(targets, allDists, 1, <<>>)

-----------------------------------------------------------------------------
(* getBuildOptions (main.go:92-117).  toolchain is the outcome of          *)
(* "go tool dist list -json": "ok", "exit" (cmd.Output fails) or           *)
(* "badjson" (json.Unmarshal fails); supportedDists is what it decodes to. *)

\* faulty variant: the filtered list is returned whether or not it is empty
getBuildOptions_EmptyOk(toolchain, supportedDists, targets) ==
    IF toolchain = "exit" THEN [dists |-> <<>>, err |-> "dist"]
    ELSE IF toolchain = "badjson" THEN [dists |-> <<>>, err |-> "json parse"]
    ELSE IF Len(targets) = 0 THEN [dists |-> supportedDists, err |-> nil]
    ELSE [dists |-> getTargetBuilds(targets, supportedDists), err |-> nil]

\* faulty variant: an empty filter list is filtered like any other
getBuildOptions_NoShortcut(toolchain, supportedDists, targets) ==
    IF toolchain = "exit" THEN [dists |-> <<>>, err |-> "dist"]
    ELSE IF toolchain = "badjson" THEN [dists |-> <<>>, err |-> "json parse"]
    ELSE LET targetDists == rangeTargets(targets, supportedDists, 1, <<>>) IN
         IF Len(targetDists) > 0 THEN [dists |-> targetDists, err |-> nil]
         ELSE [dists |-> <<>>, err |-> ErrUnsupportedTargetOSARCH]

getBuildOptions(toolchain, supportedDists, targets) ==
    IF toolchain = "exit" THEN [dists |-> <<>>, err |-> "dist"]
    ELSE IF toolchain = "badjson" THEN [dists |-> <<>>, err |-> "json parse"]
    ELSE IF Len(targets) = 0 THEN [dists |-> supportedDists, err |-> nil]
    ELSE LET targetDists == getTargetBuilds(targets, supportedDists) IN
         IF Len(targetDists) > 0 THEN [dists |-> targetDists, err |-> nil]
         ELSE [dists |-> <<>>, err |-> ErrUnsupportedTargetOSARCH]

-----------------------------------------------------------------------------
(* Build (main.go:119-146).                                                *)

BuildConfig(projectDir, outputDir, binaryName, targets) ==
    [ProjectDir |-> projectDir, OutputDir |-> outputDir,
     BinaryName |-> binaryName, Targets |-> targets]

NewConfig ==
    BuildConfig(<<".", "/">>, <<".", "/", "b", "u", "i", "l", "d">>,
                <<"b", "u", "i", "l", "d">>, <<>>)

windows == <<"w", "i", "n", "d", "o", "w", "s">>
nt == <<"n", "t">>
exe == <<".", "e", "x", "e">>

\* faulty variant: the .exe suffix is appended for "windows" only
buildFilename_NoNt(cfg, dist) ==
    LET filename == cfg.BinaryName \o <<"-">> \o dist.GOOS \o <<"_">> \o dist.GOARCH
    IN  IF dist.GOOS = windows THEN filename \o exe ELSE filename

\* main.go:121-125
buildFilename(cfg, dist) ==
    LET filename == cfg.BinaryName \o <<"-">> \o dist.GOOS \o <<"_">> \o dist.GOARCH
    IN  IF dist.GOOS = windows \/ dist.GOOS = nt THEN filename \o exe ELSE filename

\* main.go:127
buildPath(cfg, dist) == Join(cfg.OutputDir, buildFilename(cfg, dist))

\* out is what cmd.Output() returns for "go build -o fp ProjectDir"
Build(cfg, dist, out) ==
    [fp |-> buildPath(cfg, dist), res |-> out.res, err |-> out.err]

-----------------------------------------------------------------------------
(* Data the specifications draw their inputs from.                         *)

linux == <<"l", "i", "n", "u", "x">>
darwin == <<"d", "a", "r", "w", "i", "n">>
bsd == <<"b", "s", "d">>
x86 == <<"x", "8", "6">>
arm64 == <<"a", "r", "m", "6", "4">>
app == <<"a", "p", "p">>

\* main_test.go:15-46
testingDists ==
    << GoDist(windows, x86, TRUE, TRUE),
       GoDist(darwin, arm64, TRUE, TRUE),
       GoDist(linux, x86, TRUE, TRUE),
       GoDist(linux, arm64, TRUE, TRUE),
       GoDist(bsd, arm64, TRUE, FALSE) >>

smallDists == << GoDist(nt, x86, FALSE, FALSE), GoDist(linux, x86, TRUE, TRUE) >>

\* a catalog in which one OS has two architectures
mainDists ==
    << GoDist(windows, x86, TRUE, TRUE),
       GoDist(linux, x86, TRUE, TRUE),
       GoDist(linux, arm64, TRUE, TRUE) >>

Catalogs == {mainDists, smallDists}

\* sequences over S of length at most n
SeqsUpTo(S, n) == UNION {[1..k -> S] : k \in 0..n}

\* -target values: valid ones (one needing case folding, and selecting
\* nothing in mainDists), and invalid ones
RawTargets ==
    { linux,
      <<"N", "T", "/", "X", "8", "6">>,
      <<>>,
      <<"a", "/", "b", "/", "c">> }

ParseAlphabet == {"a", "B", "/"}

FilterSet ==
    { OSARCH(linux, <<>>), OSARCH(linux, x86), OSARCH(windows, <<>>),
      OSARCH(bsd, x86), OSARCH(<<>>, arm64), OSARCH(<<>>, <<>>) }

FilterCatalogs == {testingDists, smallDists, <<>>}

BuildNames == {app, <<"g", "o", "-", "b">>}
BuildOutputDirs ==
    { <<"b", "u", "i", "l", "d">>,
      <<".", "/", "b", "u", "i", "l", "d">>,
      <<"/", "p", "/", "o", "u", "t", "/">>,
      <<"/">>,
      <<>> }
BuildOSes == {windows, nt, linux, <<"W", "i", "n", "d", "o", "w", "s">>,
              <<"n", "t", "x">>, <<"w", "i", "n">>}
BuildArches == {x86, arm64}

\* what cmd.Output() of "go build" can return
CmdOutcomes ==
    { [res |-> <<>>, err |-> nil], [res |-> <<>>, err |-> "exit status 1"] }

-----------------------------------------------------------------------------
(* main (main.go:188-298).                                                 *)

MainIdle ==
    /\ VERBOSE = FALSE
    /\ argv = <<>>
    /\ argi = 0
    /\ targetOS = <<>>
    /\ targetOSRaw = <<>>
    /\ stderr = <<>>
    /\ stdout = {}
    /\ catalog = <<>>
    /\ projectArg = <<>>
    /\ outputArg = <<>>
    /\ config = NewConfig
    /\ buildDists = <<>>
    /\ err = nil
    /\ wg = 0
    /\ next = 1
    /\ jobs = <<>>
    /\ locals = [projectDir |-> <<>>, projectName |-> <<>>, outputDir |-> <<>>]

cwd == <<"/", "w", "/", "a", "p", "p">>
ProjectArgs == { <<>>, <<"/", "p", "/", "g", "o", "-", "b">> }
OutputArgs == { <<>>, <<"o", "u", "t">> }

Init ==
    /\ pc = "flag.Parse"
    /\ VERBOSE \in BOOLEAN
    /\ argv \in SeqsUpTo(RawTargets, MaxArgs)
    /\ argi = 0
    /\ targetOS = <<>>
    /\ targetOSRaw = <<>>
    /\ stderr = <<>>
    /\ stdout = {}
    /\ catalog \in Catalogs
    /\ \E k \in 1..2 :
          /\ projectArg = (CHOOSE a \in ProjectArgs : (a = <<>>) = (k = 1))
          /\ outputArg = (CHOOSE a \in OutputArgs : (a = <<>>) = (k = 1))
    /\ config = NewConfig
    /\ buildDists = <<>>
    /\ err = nil
    /\ wg = 0
    /\ next = 1
    /\ jobs = <<>>
    /\ locals = [projectDir |-> <<>>, projectName |-> <<>>, outputDir |-> <<>>]
    /\ call = <<>>
    /\ ret = <<>>

\* log.New(logWriter, ...).Println: io.Discard unless VERBOSE (main.go:230-235)
verboseLoggerPrintln(out, line) == IF VERBOSE THEN out \cup {line} ELSE out

\* log.Fatalln: the line goes to stderr and the process exits with status 1
Fatalln(line) ==
    /\ stderr' = Append(stderr, line)
    /\ pc' = "fatal"

\* faulty variant: a value that fails to parse makes flag.Parse fail and exit
targetOSARCHFunc_Abort(v) ==
    LET r == parseStringToOSARCH(v) IN
    /\ pc = "flag.Parse"
    /\ argi < Len(argv)
    /\ v = argv[argi + 1]
    /\ argi' = argi + 1
    /\ IF r.err /= nil
       THEN /\ stderr' = Append(stderr, <<"invalid value for flag -target", v>>)
            /\ pc' = "exit2"
            /\ UNCHANGED <<targetOSRaw, targetOS>>
       ELSE /\ targetOSRaw' = Append(targetOSRaw, v)
            /\ targetOS' = Append(targetOS, r.osarch)
            /\ UNCHANGED <<stderr, pc>>
    /\ UNCHANGED <<VERBOSE, argv, stdout, catalog, projectArg, outputArg,
                   config, buildDists, err, wg, next, jobs, locals, call, ret>>

\* main.go:196-212, called by flag.Parse once per -target value, in order
targetOSARCHFunc(v) ==
    LET r == parseStringToOSARCH(v) IN
    /\ pc = "flag.Parse"
    /\ argi < Len(argv)
    /\ v = argv[argi + 1]
    /\ argi' = argi + 1
    /\ IF r.err = ErrInvalidOSARCH
       THEN /\ stderr' = Append(stderr, <<"Unable to parse", v>>)
            /\ UNCHANGED <<targetOSRaw, targetOS>>
       ELSE /\ targetOSRaw' = Append(targetOSRaw, v)
            /\ targetOS' = Append(targetOS, r.osarch)
            /\ UNCHANGED stderr
    /\ UNCHANGED <<pc, VERBOSE, argv, stdout, catalog, projectArg, outputArg,
                   config, buildDists, err, wg, next, jobs, locals, call, ret>>

\* getProjectName (main.go:173-186); wd is what os.Getwd returns
getProjectName(projFp, wd) ==
    IF projFp = <<".">>
    THEN IF wd.err /= nil THEN [name |-> <<>>, err |-> wd.err]
         ELSE [name |-> Base(wd.dir), err |-> nil]
    ELSE [name |-> Base(projFp), err |-> nil]

GetwdOutcomes == { [dir |-> cwd, err |-> nil], [dir |-> <<>>, err |-> "getwd"] }

\* main.go:226-263: the rest of flag.Parse, project directory, project name
\* and output directory
ResolveProject ==
    /\ pc = "flag.Parse"
    /\ argi = Len(argv)
    /\ \E wd \in GetwdOutcomes :
          LET needWd == projectArg = <<>> \/ projectArg = <<".">>
              projectDir == IF needWd THEN wd.dir ELSE projectArg
              pn == getProjectName(projectDir, wd)
              outputDir == IF outputArg = <<>>
                           THEN Join(projectDir, <<"b", "u", "i", "l", "d">>)
                           ELSE outputArg
          IN  /\ needWd \/ wd.err = nil
              /\ IF needWd /\ wd.err /= nil
                 THEN /\ Fatalln(<<"get wd:", wd.err>>)
                      /\ err' = wd.err
                      /\ UNCHANGED <<locals, stdout>>
                 ELSE IF pn.err /= nil
                 THEN /\ Fatalln(<<"project name:", pn.err>>)
                      /\ err' = pn.err
                      /\ stdout' = verboseLoggerPrintln(stdout,
                                       <<0, "project dir:", projectDir>>)
                      /\ UNCHANGED locals
                 ELSE /\ locals' = [projectDir |-> projectDir,
                                    projectName |-> pn.name,
                                    outputDir |-> outputDir]
                      /\ stdout' = verboseLoggerPrintln(
                                       verboseLoggerPrintln(
                                          verboseLoggerPrintln(stdout,
                                             <<0, "project dir:", projectDir>>),
                                          <<0, "project name:", pn.name>>),
                                       <<0, "output directory:", outputDir>>)
                      /\ pc' = "getBuildOptions"
                      /\ UNCHANGED <<stderr, err>>
    /\ UNCHANGED <<VERBOSE, argv, argi, targetOS, targetOSRaw, catalog,
                   projectArg, outputArg, config, buildDists, wg, next, jobs,
                   call, ret>>

ToolchainOutcomes == {"ok", "exit", "badjson"}

\* main.go:265-277
CallGetBuildOptions ==
    /\ pc = "getBuildOptions"
    /\ \E toolchain \in ToolchainOutcomes :
          LET r == getBuildOptions(toolchain, catalog, targetOS) IN
          /\ buildDists' = r.dists
          /\ err' = r.err
          /\ IF r.err = ErrUnsupportedTargetOSARCH
             THEN /\ Fatalln(<<"Unsupported targets: ", targetOSRaw, r.err>>)
                  /\ UNCHANGED config
             ELSE IF r.err /= nil
             THEN /\ Fatalln(<<"build options:", r.err>>)
                  /\ UNCHANGED config
             ELSE /\ config' = BuildConfig(locals.projectDir, locals.outputDir,
                                           locals.projectName, targetOS)
                  /\ pc' = "wg.Add"
                  /\ UNCHANGED stderr
    /\ UNCHANGED <<VERBOSE, argv, argi, targetOS, targetOSRaw, stdout, catalog,
                   projectArg, outputArg, wg, next, jobs, locals, call, ret>>

\* main.go:279-281
WgAdd ==
    /\ pc = "wg.Add"
    /\ wg' = wg + Len(buildDists)
    /\ pc' = "range"
    /\ UNCHANGED <<VERBOSE, argv, argi, targetOS, targetOSRaw, stderr, stdout,
                   catalog, projectArg, outputArg, config, buildDists, err,
                   next, jobs, locals, call, ret>>

NewJob(dist) ==
    [dist |-> dist, state |-> "start", cmd |-> <<>>, fp |-> <<>>,
     res |-> <<>>, err |-> nil, results |-> 0]

\* faulty variant: one dist variable shared by all iterations; the goroutines see
\* the element of the last iteration
GoFunc_SharedLoopVar ==
    /\ pc = "range"
    /\ next <= Len(buildDists)
    /\ jobs' = Append(jobs, NewJob(buildDists[Len(buildDists)]))
    /\ next' = next + 1
    /\ UNCHANGED <<pc, VERBOSE, argv, argi, targetOS, targetOSRaw, stderr,
                   stdout, catalog, projectArg, outputArg, config, buildDists,
                   err, wg, locals, call, ret>>

\* main.go:283-294: one iteration of the loop, launching one goroutine
GoFunc ==
    /\ pc = "range"
    /\ next <= Len(buildDists)
    /\ jobs' = Append(jobs, NewJob(buildDists[next]))
    /\ next' = next + 1
    /\ UNCHANGED <<pc, VERBOSE, argv, argi, targetOS, targetOSRaw, stderr,
                   stdout, catalog, projectArg, outputArg, config, buildDists,
                   err, wg, locals, call, ret>>

\* main.go:287: the goroutine's call of Build, with the outcome of "go build"
JobBuild(i) ==
    /\ pc \in {"range", "wg.Wait"}
    /\ i \in 1..Len(jobs)
    /\ jobs[i].state = "start"
    /\ \E out \in CmdOutcomes :
          LET r == Build(config, jobs[i].dist, out) IN
          jobs' = [jobs EXCEPT ![i] =
                      [@ EXCEPT !.state = "built", !.cmd = out, !.fp = r.fp,
                                !.res = r.res, !.err = r.err,
                                !.results = @ + 1]]
    /\ UNCHANGED <<pc, VERBOSE, argv, argi, targetOS, targetOSRaw, stderr,
                   stdout, catalog, projectArg, outputArg, config, buildDists,
                   err, wg, next, locals, call, ret>>

\* main.go:286, 289-291: the three log lines, then the deferred wg.Done
JobLogDone(i) ==
    /\ pc \in {"range", "wg.Wait"}
    /\ i \in 1..Len(jobs)
    /\ jobs[i].state = "built"
    /\ stdout' = verboseLoggerPrintln(
                    verboseLoggerPrintln(
                       verboseLoggerPrintln(stdout, <<i, "build:", jobs[i].dist>>),
                       <<i, jobs[i].res>>),
                    <<i, "error:", jobs[i].err>>)
    /\ jobs' = [jobs EXCEPT ![i].state = "done"]
    /\ wg' = wg - 1
    /\ UNCHANGED <<pc, VERBOSE, argv, argi, targetOS, targetOSRaw, stderr,
                   catalog, projectArg, outputArg, config, buildDists, err,
                   next, locals, call, ret>>

\* main.go:283: the range loop ends
RangeDone ==
    /\ pc = "range"
    /\ next > Len(buildDists)
    /\ pc' = "wg.Wait"
    /\ UNCHANGED <<VERBOSE, argv, argi, targetOS, targetOSRaw, stderr, stdout,
                   catalog, projectArg, outputArg, config, buildDists, err, wg,
                   next, jobs, locals, call, ret>>

\* faulty variant: main does not wait for the counter to reach zero
WgWait_NoBarrier ==
    /\ pc = "wg.Wait"
    /\ pc' = "exit"
    /\ UNCHANGED <<VERBOSE, argv, argi, targetOS, targetOSRaw, stderr, stdout,
                   catalog, projectArg, outputArg, config, buildDists, err, wg,
                   next, jobs, locals, call, ret>>

\* main.go:296-298: wg.Wait returns once the counter is zero; main returns
WgWait ==
    /\ pc = "wg.Wait"
    /\ wg = 0
    /\ pc' = "exit"
    /\ UNCHANGED <<VERBOSE, argv, argi, targetOS, targetOSRaw, stderr, stdout,
                   catalog, projectArg, outputArg, config, buildDists, err, wg,
                   next, jobs, locals, call, ret>>

Next ==
    \/ \E v \in RawTargets : targetOSARCHFunc(v)
    \/ ResolveProject
    \/ CallGetBuildOptions
    \/ WgAdd
    \/ GoFunc
    \/ RangeDone
    \/ \E i \in 1..Len(jobs) : JobBuild(i)
    \/ \E i \in 1..Len(jobs) : JobLogDone(i)
    \/ WgWait

Spec == Init /\ [][Next]_vars

-----------------------------------------------------------------------------
(* The functions on their own: each specification draws the arguments of   *)
(* one call from a bounded set and applies the function to them.           *)

InitParse ==
    /\ pc = "parse.call"
    /\ call \in SeqsUpTo(ParseAlphabet, MaxStrLen)
    /\ ret = <<>>
    /\ MainIdle

ParseCall ==
    /\ pc = "parse.call"
    /\ ret' = parseStringToOSARCH(call)
    /\ pc' = "parse.return"
    /\ UNCHANGED <<call, mainVars>>

SpecParse == InitParse /\ [][ParseCall]_vars

InitFilter ==
    /\ pc = "filter.call"
    /\ call \in [targets : SeqsUpTo(FilterSet, MaxFilters), allDists : FilterCatalogs]
    /\ ret = <<>>
    /\ MainIdle

FilterCall ==
    /\ pc = "filter.call"
    /\ ret' = getTargetBuilds(call.targets, call.allDists)
    /\ pc' = "filter.return"
    /\ UNCHANGED <<call, mainVars>>

SpecFilter == InitFilter /\ [][FilterCall]_vars

InitBuild ==
    /\ pc = "build.call"
    /\ call \in [cfg : {BuildConfig(<<".">>, o, n, <<>>) :
                           o \in BuildOutputDirs, n \in BuildNames},
                 dist : {GoDist(os, arch, TRUE, TRUE) :
                           os \in BuildOSes, arch \in BuildArches},
                 out : CmdOutcomes]
    /\ ret = <<>>
    /\ MainIdle

BuildCall ==
    /\ pc = "build.call"
    /\ ret' = Build(call.cfg, call.dist, call.out)
    /\ pc' = "build.return"
    /\ UNCHANGED <<call, mainVars>>

SpecBuild == InitBuild /\ [][BuildCall]_vars

-----------------------------------------------------------------------------
(* What the claims are stated in: the reading of a -target value and of a  *)
(* filter match that the specification gives, written without the code's   *)
(* helpers.                                                                *)

CountSep(s) == Cardinality({i \in 1..Len(s) : s[i] = "/"})

Lowered(s) == [i \in 1..Len(s) |-> ToLowerChar(s[i])]

ValidRaw(s) == s /= <<>> /\ CountSep(s) <= 1

\* the OSARCH a valid value denotes
ExpectedOSARCH(s) ==
    LET l == Lowered(s)
        k == CHOOSE i \in 0..Len(s) : IF CountSep(s) = 0 THEN i = 0 ELSE i > 0 /\ s[i] = "/"
    IN  IF k = 0 THEN [OS |-> l, ARCH |-> <<>>]
        ELSE [OS |-> SubSeq(l, 1, k - 1), ARCH |-> SubSeq(l, k + 1, Len(l))]

FilterSelects(f, d) ==
    \/ f.ARCH = <<>> /\ f.OS = d.GOOS
    \/ f.ARCH /= <<>> /\ f.OS = d.GOOS /\ f.ARCH = d.GOARCH

RECURSIVE ConcatMatches(_, _)
ConcatMatches(F, C) ==
    IF F = <<>> THEN <<>>
    ELSE SelectSeq(C, LAMBDA d : FilterSelects(Head(F), d)) \o ConcatMatches(Tail(F), C)

\* name resolved under directory dir
Under(dir, name) ==
    LET d == Clean(dir) IN
    IF dir = <<>> \/ d = <<".">> THEN name
    ELSE IF d = <<"/">> THEN <<"/">> \o name
    ELSE d \o <<"/">> \o name

Handled == SubSeq(argv, 1, argi)
Dropped == SelectSeq(Handled, LAMBDA v : ~ValidRaw(v))
Kept == SelectSeq(Handled, ValidRaw)
Dispatching == pc \in {"wg.Add", "range", "wg.Wait", "exit"}
JobIds == 1..Len(jobs)
StderrLines == {stderr[k] : k \in 1..Len(stderr)}

-----------------------------------------------------------------------------
(* C6: parseStringToOSARCH returns ErrInvalidOSARCH with the zero OSARCH   *)
(* for the empty string and for a string with two or more "/"; otherwise   *)
(* it succeeds on the lower-cased input: {whole, ""} without a separator,  *)
(* {left, right} with exactly one, an empty side passed through.           *)
C6_ParseContract ==
    pc = "parse.return" =>
        IF call = <<>> \/ CountSep(call) >= 2
        THEN ret = [osarch |-> [OS |-> <<>>, ARCH |-> <<>>], err |-> ErrInvalidOSARCH]
        ELSE /\ ret.err = nil
             /\ ret.osarch = ExpectedOSARCH(call)
             /\ CountSep(call) = 0 => ret.osarch.ARCH = <<>> /\ Len(ret.osarch.OS) = Len(call)
             /\ CountSep(call) = 1 =>
                   Len(ret.osarch.OS) + Len(ret.osarch.ARCH) + 1 = Len(call)

\* an upper-case OS with a separator and an empty ARCH has been parsed
C6_Witness ==
    /\ pc = "parse.return"
    /\ call = <<"B", "/">>
    /\ ret = [osarch |-> [OS |-> <<"b">>, ARCH |-> <<>>], err |-> nil]

(* C4: getTargetBuilds(F, C) is C when F is empty, and otherwise the       *)
(* concatenation, over the filters of F in order, of the catalog-ordered   *)
(* entries each filter selects, an entry appearing once per filter that    *)
(* selects it.                                                             *)
C4_FilterContract ==
    pc = "filter.return" =>
        ret = IF call.targets = <<>> THEN call.allDists
              ELSE ConcatMatches(call.targets, call.allDists)

\* two overlapping filters have selected linux/x86 twice
C4_Witness ==
    /\ pc = "filter.return"
    /\ call.targets = <<OSARCH(linux, <<>>), OSARCH(linux, x86)>>
    /\ call.allDists = testingDists
    /\ ret = << GoDist(linux, x86, TRUE, TRUE), GoDist(linux, arm64, TRUE, TRUE),
                GoDist(linux, x86, TRUE, TRUE) >>

(* C9: the file Build names is BinaryName-GOOS_GOARCH, with ".exe"         *)
(* appended exactly when GOOS is "windows" or "nt", resolved under         *)
(* OutputDir.                                                              *)
C9_OutputPath ==
    pc = "build.return" =>
        LET stem == call.cfg.BinaryName \o <<"-">> \o call.dist.GOOS
                       \o <<"_">> \o call.dist.GOARCH
            isWin == call.dist.GOOS \in {windows, nt}
            filename == IF isWin THEN stem \o exe ELSE stem
        IN  /\ ret.fp = Under(call.cfg.OutputDir, filename)
            /\ buildFilename(call.cfg, call.dist) = filename
            /\ (call.cfg.BinaryName = app /\ call.dist.GOOS = windows
                  /\ call.dist.GOARCH = x86)
                 => filename = <<"a","p","p","-","w","i","n","d","o","w","s","_",
                                 "x","8","6",".","e","x","e">>
            /\ (call.cfg.BinaryName = app /\ call.dist.GOOS = linux
                  /\ call.dist.GOARCH = arm64)
                 => filename = <<"a","p","p","-","l","i","n","u","x","_",
                                 "a","r","m","6","4">>

\* app for nt/x86 has been built into ./build
C9_Witness ==
    /\ pc = "build.return"
    /\ call.cfg.BinaryName = app
    /\ call.cfg.OutputDir = <<".", "/", "b", "u", "i", "l", "d">>
    /\ call.dist.GOOS = nt /\ call.dist.GOARCH = x86
    /\ ret.fp = <<"b","u","i","l","d","/","a","p","p","-","n","t","_",
                  "x","8","6",".","e","x","e">>

-----------------------------------------------------------------------------
(* C7: a -target value that fails to parse is dropped with a warning and   *)
(* neither aborts the run nor affects the other values: the filter list    *)
(* handed to getBuildOptions is the sequence of the values that parse, in  *)
(* command-line order.                                                     *)
C7_DroppedFiltersOnly ==
    /\ targetOSRaw = Kept
    /\ Len(targetOS) = Len(Kept)
    /\ \A k \in 1..Len(Kept) : targetOS[k] = ExpectedOSARCH(Kept[k])
    /\ pc /= "flag.Parse" => argi = Len(argv)
    /\ pc /= "exit2"
    /\ \A k \in 1..Len(Dropped) :
          Len(stderr) >= k /\ stderr[k] = <<"Unable to parse", Dropped[k]>>
    /\ Dispatching => config.Targets = targetOS

\* an invalid value followed by a valid one: the second reached the filter
C7_Witness ==
    /\ Dispatching
    /\ Len(argv) = 2
    /\ ~ValidRaw(argv[1])
    /\ ValidRaw(argv[2])
    /\ targetOS = <<ExpectedOSARCH(argv[2])>>

(* C10: when every -target value fails to parse the filter list is empty,  *)
(* the run is not stopped for want of a matching target, and one job is    *)
(* dispatched for every catalog entry, as without any -target.             *)
C10_AllDroppedBuildsAll ==
    (argv /= <<>> /\ \A k \in 1..Len(argv) : ~ValidRaw(argv[k])) =>
        /\ targetOS = <<>>
        /\ err /= ErrUnsupportedTargetOSARCH
        /\ Dispatching => buildDists = catalog
        /\ pc \in {"wg.Wait", "exit"} =>
              /\ Len(jobs) = Len(catalog)
              /\ \A i \in JobIds : jobs[i].dist = catalog[i]

\* two invalid values, and the whole catalog has been built
C10_Witness ==
    /\ pc = "exit"
    /\ Len(argv) = 2
    /\ ~ValidRaw(argv[1]) /\ ~ValidRaw(argv[2])
    /\ Len(jobs) = Len(catalog)
    /\ \A i \in JobIds : jobs[i].state = "done"

(* C5: with at least one filter and no catalog entry selected by any of    *)
(* them, getBuildOptions returns ErrUnsupportedTargetOSARCH, never an      *)
(* empty list with a nil error, and main ends fatally with no job          *)
(* launched.                                                               *)
C5_NoMatchIsFatal ==
    /\ (Dispatching /\ targetOS /= <<>>) =>
          /\ buildDists /= <<>>
          /\ \E k \in 1..Len(targetOS) : \E j \in 1..Len(catalog) :
                FilterSelects(targetOS[k], catalog[j])
    /\ err = ErrUnsupportedTargetOSARCH =>
          /\ pc = "fatal"
          /\ targetOS /= <<>>
          /\ \A k \in 1..Len(targetOS) : \A j \in 1..Len(catalog) :
                ~FilterSelects(targetOS[k], catalog[j])
          /\ buildDists = <<>>
          /\ jobs = <<>> /\ wg = 0 /\ next = 1
          /\ stderr[Len(stderr)][1] = "Unsupported targets: "

\* a filter that parses and selects nothing has ended the run
C5_Witness ==
    /\ pc = "fatal"
    /\ err = ErrUnsupportedTargetOSARCH
    /\ targetOS = <<[OS |-> nt, ARCH |-> x86]>>
    /\ catalog = mainDists
    /\ jobs = <<>>

(* C2: main passes wg.Wait only when every launched job has completed,     *)
(* and the jobs launched are as many as the resolved targets.              *)
C2_JoinBarrier ==
    /\ pc \in {"wg.Wait", "exit"} => Len(jobs) = Len(buildDists)
    /\ pc = "exit" => \A i \in JobIds : jobs[i].state = "done"
    /\ pc \in {"range", "wg.Wait", "exit"} =>
          wg = Len(buildDists) - Cardinality({i \in JobIds : jobs[i].state = "done"})
    /\ (pc = "wg.Wait" /\ \E i \in JobIds : jobs[i].state /= "done") => ~ENABLED WgWait

\* main has returned after at least two jobs
C2_Witness ==
    /\ pc = "exit"
    /\ Len(jobs) >= 2
    /\ \A i \in JobIds : jobs[i].state = "done"

\* the stages of a goroutine's body (main.go:285-292)
JobRank(state) == CASE state = "start" -> 0 [] state = "built" -> 1 [] state = "done" -> 2

\* what holds of the launched jobs in every state
C1_JobsState ==
    /\ Len(jobs) <= Len(buildDists)
    /\ \A i \in JobIds :
          /\ jobs[i].dist = buildDists[i]
          /\ jobs[i].state = "start" => jobs[i].results = 0
          /\ jobs[i].state \in {"built", "done"} =>
                /\ jobs[i].results = 1
                /\ (jobs[i].err /= nil) <=> (jobs[i].cmd.err /= nil)
          /\ (jobs[i].state = "built" /\ pc /= "exit") => ENABLED JobLogDone(i)
    /\ pc = "exit" =>
          /\ Len(jobs) = Len(buildDists)
          /\ \A i \in JobIds : jobs[i].results = 1

\* a step leaves every launched job as it was, or advances one job by one
\* stage of its own body; no step of a job touches a sibling
C1_JobsStep ==
    /\ Len(jobs') >= Len(jobs)
    /\ \A i \in JobIds :
          \/ jobs'[i] = jobs[i]
          \/ /\ JobRank(jobs'[i].state) = JobRank(jobs[i].state) + 1
             /\ jobs'[i].dist = jobs[i].dist
             /\ \A j \in JobIds \ {i} : jobs'[j] = jobs[j]

(* C1: N resolved distributions give N jobs, job i building element i;     *)
(* each job has exactly one result, its error non-nil exactly when its     *)
(* build failed; a failed job stops no sibling.                            *)
C1_OneJobPerDist == [](C1_JobsState) /\ [][C1_JobsStep]_vars

\* main has returned with a failed and a successful job
C1_Witness ==
    /\ pc = "exit"
    /\ \E i, j \in JobIds :
          /\ jobs[i].cmd.err /= nil /\ jobs[i].err /= nil
          /\ jobs[j].cmd.err = nil /\ jobs[j].err = nil

(* C3: any two jobs of one run write to distinct output paths.             *)
C3_DistinctOutputPaths ==
    \A i, j \in JobIds :
        i /= j => buildPath(config, jobs[i].dist) /= buildPath(config, jobs[j].dist)

(* C8: whatever VERBOSE is, every failed build job has an emitted line     *)
(* reporting the failure, and every dropped filter string has an emitted   *)
(* warning.                                                                *)
C8_NoSilentDiscard ==
    /\ \A i \in JobIds :
          (jobs[i].state = "done" /\ jobs[i].cmd.err /= nil) =>
              \E line \in stdout \cup StderrLines :
                  /\ Len(line) = 3 /\ line[1] = i /\ line[2] = "error:"
                  /\ line[3] /= nil
    /\ \A k \in 1..Len(Dropped) :
          <<"Unable to parse", Dropped[k]>> \in StderrLines

=============================================================================
